---- MODULE Spec2Model ----
(***************************************************************************)
(* A model of jellyfin-dl.py: login, enumeration of the audio library and *)
(* the per-item pipeline (metadata, audio download, extras, lyrics,       *)
(* sibling sweep) writing into a local directory tree.                    *)
(*                                                                         *)
(* Text is a sequence of tokens.  A token is one character ("a", "/",     *)
(* " ") or one indivisible lexeme of the texts the program handles        *)
(* ("filename", "UTF-8''", "%2F", ".lrc", "Unknown").                     *)
(***************************************************************************)
EXTENDS Integers, Sequences, FiniteSets, TLC

VARIABLES
    \* ---- main(): one run of the program against a server and a disk
    library,        \* which library the server holds ("plain", "odd")
    pc,             \* main's position: the step about to run
    login_resp,     \* r of login: the response to the authentication request
    session,        \* (token, user_id) once login has returned
    net,            \* the endpoints this run has sent a request to
    n_items,        \* len(items)
    idx,            \* position of the loop `for item in items` (1-based)
    item,           \* the loop variable item (the listing's entry idx)
    item_meta,      \* item_meta of the current iteration
    folder,         \* folder of the current iteration
    audio_path,     \* audio_path of the current iteration
    lrc,            \* lrc of the current iteration
    todo,           \* what the loop being iterated (extras, siblings) has left
    steps,          \* the pipeline steps started for the latest item, in order
    handled,        \* per finished iteration: "ok", or "failed" (except branch)
    fs,             \* the disk: files with their content, and directories
    \* ---- download_item_file called on its own
    n_calls,        \* calls made so far
    prev_call,      \* the call before the latest one
    last_call,      \* the latest call: arguments, server answer, outcome
    \* ---- extract_filename_from_cd called on its own
    cd_params,      \* the parameters the header argument is written from
    cd_header,      \* the header argument
    fallback_name,  \* the fallback argument
    cd_result       \* the value returned

mainVars == <<library, pc, login_resp, session, net, n_items, idx, item, item_meta,
              folder, audio_path, lrc, todo, steps, handled>>
dlVars == <<n_calls, prev_call, last_call>>
cdVars == <<cd_params, cd_header, fallback_name, cd_result>>
vars == <<mainVars, fs, dlVars, cdVars>>

----------------------------------------------------------------------------
(* Text helpers *)

\* the characters both sanitizers drop: \ / : * ? " < > |
invalid_chars == {"\\", "/", ":", "*", "?", "\"", "<", ">", "|"}

\* str.strip() with no argument strips whitespace
Whitespace == {" ", "\t", "\n", "\r"}

RECURSIVE LStrip(_, _)
LStrip(s, chars) ==
    IF s # << >> /\ Head(s) \in chars THEN LStrip(Tail(s), chars) ELSE s

RECURSIVE RStrip(_, _)
RStrip(s, chars) ==
    IF s # << >> /\ s[Len(s)] \in chars
    THEN RStrip(SubSeq(s, 1, Len(s) - 1), chars)
    ELSE s

Strip(s, chars) == RStrip(LStrip(s, chars), chars)

\* "".join(c for c in s if c not in chars)
Drop(s, chars) == SelectSeq(s, LAMBDA c : c \notin chars)

\* urllib.parse.unquote on one token: a percent escape becomes its character
UnquoteToken(c) ==
    CASE c = "%2F" -> "/"
      [] c = "%20" -> " "
      [] c = "%22" -> "\""
      [] OTHER -> c

Unquote(s) == [i \in 1..Len(s) |-> UnquoteToken(s[i])]

\* the index of the last token of the longest run of s that starts at j and
\* holds no token of bad (j - 1 when the run is empty)
RECURSIVE RunEnd(_, _, _)
RunEnd(s, j, bad) ==
    IF j <= Len(s) /\ s[j] \notin bad THEN RunEnd(s, j + 1, bad) ELSE j - 1

----------------------------------------------------------------------------
(* extract_filename_from_cd.  A text the server left out (None) and the     *)
(* empty text are both the empty sequence: the program tests every optional *)
(* text by truth value only (`if not cd_header`, `x or default`).           *)

\* [^;\r\n] and [^";\n]
ExtStop == {";", "\r", "\n"}
PlainStop == {"\"", ";", "\n"}

\* filename\*=(?:UTF-8'')?([^;\r\n]+) tried at position i: the index where
\* group 1 starts, 0 when the pattern does not match at i.  The optional
\* prefix is taken when what follows it can start the group, and given back
\* otherwise (the prefix itself then starts the group).
ExtGroupStart(s, i) ==
    IF ~(i + 2 <= Len(s) /\ s[i] = "filename" /\ s[i + 1] = "*" /\ s[i + 2] = "=")
    THEN 0
    ELSE IF i + 4 <= Len(s) /\ s[i + 3] = "UTF-8''" /\ s[i + 4] \notin ExtStop
    THEN i + 4
    ELSE IF i + 3 <= Len(s) /\ s[i + 3] \notin ExtStop
    THEN i + 3
    ELSE 0

\* filename="?([^";\n]+)"? tried at position i
PlainGroupStart(s, i) ==
    IF ~(i + 1 <= Len(s) /\ s[i] = "filename" /\ s[i + 1] = "=")
    THEN 0
    ELSE IF i + 3 <= Len(s) /\ s[i + 2] = "\"" /\ s[i + 3] \notin PlainStop
    THEN i + 3
    ELSE IF i + 2 <= Len(s) /\ s[i + 2] \notin PlainStop
    THEN i + 2
    ELSE 0

\* re.search: the leftmost position where the pattern matches, 0 when none
RECURSIVE ExtSearch(_, _)
ExtSearch(s, i) ==
    IF i > Len(s) THEN 0
    ELSE IF ExtGroupStart(s, i) # 0 THEN i
    ELSE ExtSearch(s, i + 1)

RECURSIVE PlainSearch(_, _)
PlainSearch(s, i) ==
    IF i > Len(s) THEN 0
    ELSE IF PlainGroupStart(s, i) # 0 THEN i
    ELSE PlainSearch(s, i + 1)

ExtGroup(s) ==
    LET start == ExtGroupStart(s, ExtSearch(s, 1))
    IN  SubSeq(s, start, RunEnd(s, start, ExtStop))

PlainGroup(s) ==
    LET start == PlainGroupStart(s, PlainSearch(s, 1))
    IN  SubSeq(s, start, RunEnd(s, start, PlainStop))

extract_filename_from_cd(cd, fallback) ==
    IF cd = << >> THEN fallback
    ELSE IF ExtSearch(cd, 1) # 0 THEN Unquote(Strip(ExtGroup(cd), {"\""}))
    ELSE IF PlainSearch(cd, 1) # 0 THEN Strip(PlainGroup(cd), Whitespace)
    ELSE fallback

----------------------------------------------------------------------------
(* Paths and the disk.  A path is a sequence of components below the target *)
(* root, each a text; the disk is keyed by normalised paths, so that two    *)
(* spellings of one location are one file.                                  *)

Dot == <<".">>
DotDot == <<".", ".">>

\* what the operating system resolves a path to: "" and "." vanish, ".."
\* steps up (and stays in the result once it climbs above the root)
RECURSIVE Norm(_)
Norm(comps) ==
    IF comps = << >> THEN << >>
    ELSE LET front == Norm(SubSeq(comps, 1, Len(comps) - 1))
             c == comps[Len(comps)]
         IN  IF c = << >> \/ c = Dot THEN front
             ELSE IF c = DotDot
             THEN IF front # << >> /\ front[Len(front)] # DotDot
                  THEN SubSeq(front, 1, Len(front) - 1)
                  ELSE Append(front, DotDot)
             ELSE Append(front, c)

\* os.path.join(folder, name), kept as its two parts
Path(dir, name) == [folder |-> dir, name |-> name]
Loc(path) == Norm(Append(path.folder, path.name))
NoPath == Path(<< >>, << >>)

EmptyFS == [files |-> << >>, dirs |-> {}]

\* the target root and everything above it exist before the run
IsDir(disk, loc) == loc \in disk.dirs \/ \A i \in 1..Len(loc) : loc[i] = DotDot
IsFile(disk, loc) == loc \in DOMAIN disk.files
\* os.path.exists
Exists(disk, loc) == IsFile(disk, loc) \/ IsDir(disk, loc)

\* the locations os.makedirs(dir) visits: every leading part of dir
Prefixes(dir) == {Norm(SubSeq(dir, 1, k)) : k \in 1..Len(dir)}
\* os.makedirs(dir, exist_ok=True) raises when a leading part is a file
MakeDirsRaises(disk, dir) == \E p \in Prefixes(dir) : IsFile(disk, p)
MakeDirs(disk, dir) == [disk EXCEPT !.dirs = @ \cup Prefixes(dir)]

\* open(path, "wb"/"w") followed by the writes: the file holds content
WriteFile(disk, loc, content) ==
    [disk EXCEPT !.files =
        [l \in DOMAIN disk.files \cup {loc} |->
            IF l = loc THEN content ELSE disk.files[l]]]

Body(id, complete) == [kind |-> "body", src |-> id, complete |-> complete]
\* an image file holds bytes of the slot's image; how many is not told apart
Image(slot) == [kind |-> "image", src |-> slot, complete |-> TRUE]
Lyrics(text) == [kind |-> "lyrics", src |-> text, complete |-> TRUE]

----------------------------------------------------------------------------
(* download_item_file *)

\* lines 73-74: the sanitized file name
SafeFname(fname) == Strip(Drop(fname, invalid_chars), Whitespace)

\* The server's answer to one call: how far the exchange gets ("http_error":
\* the download request fails or has an error status; "meta_error": get_item
\* raises; "broken": the body stream fails part way; "ok"), the
\* Content-Disposition header and the Name of the metadata.
Answer(outcome, cd, name) == [outcome |-> outcome, cd |-> cd, name |-> name]

\* the path the call resolves (lines 68-76)
OutPath(item_id, dest_folder, ans) ==
    Path(dest_folder,
         SafeFname(extract_filename_from_cd(ans.cd,
             IF ans.name # << >> THEN ans.name ELSE <<item_id>>)))

\* download_item_file without its existence test
NeverSkips(disk, path) == FALSE

\* lines 78-80: the target exists already, the download is skipped
SkipsExisting(disk, path) == Exists(disk, Loc(path))

\* The call's effect: the disk after it, whether it raised, the path returned
\* (NoPath when it raised), the requests sent, how much of the body was read
\* ("none", "part", "all") and whether a file was opened for writing.
download_item_file(disk, item_id, dest_folder, ans) ==
    LET out_path == OutPath(item_id, dest_folder, ans)
        made == MakeDirs(disk, dest_folder)
        Result(d, raised, ret, sent, read, wrote) ==
            [fs |-> d, raised |-> raised, ret |-> ret, net |-> sent,
             read |-> read, wrote |-> wrote]
    IN  IF ans.outcome = "http_error"
        THEN Result(disk, TRUE, NoPath, {"download"}, "none", FALSE)
        ELSE IF ans.outcome = "meta_error"
        THEN Result(disk, TRUE, NoPath, {"download", "item"}, "none", FALSE)
        ELSE IF MakeDirsRaises(disk, dest_folder)
        THEN Result(disk, TRUE, NoPath, {"download", "item"}, "none", FALSE)
        ELSE IF SkipsExisting(made, out_path)
        THEN Result(made, FALSE, out_path, {"download", "item"}, "none", FALSE)
        ELSE IF ans.outcome = "broken"
        THEN Result(WriteFile(made, Loc(out_path), Body(item_id, FALSE)),
                    TRUE, NoPath, {"download", "item"}, "part", TRUE)
        ELSE Result(WriteFile(made, Loc(out_path), Body(item_id, TRUE)),
                    FALSE, out_path, {"download", "item"}, "all", TRUE)

----------------------------------------------------------------------------
(* What the server and the listing can hold *)

\* Content-Disposition headers are written from parameters: the disposition
\* type, filename*= with the charset spelt UTF-8 or utf-8 (RFC 5987 reads the
\* charset case-insensitively), filename="..." and filename=...
CdParam(kind, value) == [kind |-> kind, value |-> value]

RenderParam(p) ==
    CASE p.kind = "type" -> <<"attachment">>
      [] p.kind = "ext" -> <<"filename", "*", "=", "UTF-8''">> \o p.value
      [] p.kind = "ext_lc" -> <<"filename", "*", "=", "utf-8''">> \o p.value
      [] p.kind = "quoted" -> <<"filename", "=", "\"">> \o p.value \o <<"\"">>
      [] p.kind = "bare" -> <<"filename", "=">> \o p.value

RECURSIVE RenderHeader(_)
RenderHeader(params) ==
    IF params = << >> THEN << >>
    ELSE IF Len(params) = 1 THEN RenderParam(params[1])
    ELSE RenderParam(params[1]) \o <<";", " ">> \o RenderHeader(Tail(params))

SeqsUpTo(S, n) == UNION {[1..k -> S] : k \in 0..n}

Mp3Name == <<"a", ".mp3">>
LrcName == <<"a", ".lrc">>

\* a header in the two-parameter form ASP.NET writes, for an audio file
\* whose name holds characters the program drops, and a classic one naming
\* a lyrics file
AudioHeader ==
    RenderHeader(<<CdParam("type", << >>), CdParam("quoted", <<"a", ":", ".mp3">>),
                   CdParam("ext", <<"a", "%2F", ".mp3">>)>>)
LyricsHeader == RenderHeader(<<CdParam("quoted", LrcName)>>)

\* the headers the download endpoint can answer with
CdHeaders == { << >>, AudioHeader, LyricsHeader }

\* Name of the metadata: absent, or a file name
MetaNames == { << >>, Mp3Name }

\* every answer: the Name matters only when there is no header to take the
\* file name from
Answers ==
    {Answer(o, << >>, << >>) : o \in {"http_error", "meta_error"}}
    \cup {Answer(o, cd, << >>) : o \in {"ok", "broken"}, cd \in CdHeaders}
    \cup {Answer(o, << >>, name) : o \in {"ok", "broken"}, name \in MetaNames}

\* The server of a whole run names every file in a header: item "3" is a
\* lyrics file, every other item an audio file of one and the same name.
\* What varies from one request to the next is how far the exchange gets.
ServedHeader(id) == IF id = "3" THEN LyricsHeader ELSE AudioHeader
RunAnswers(id) ==
    {Answer(o, << >>, << >>) : o \in {"http_error", "meta_error"}}
    \cup {Answer(o, ServedHeader(id), << >>) : o \in {"ok", "broken"}}

----------------------------------------------------------------------------
(* The values the variables of a part hold while another part is exercised *)

NoResp == [status |-> 0, json |-> FALSE, AccessToken |-> "", UserId |-> ""]
NoSession == [token |-> "", user_id |-> ""]
NoItem == [Id |-> "", Artists |-> << >>, Album |-> << >>, ParentId |-> "",
           RunTimeTicks |-> "missing"]
NoMeta == [Id |-> "", MediaSources |-> << >>, ExtraFiles |-> << >>, tags |-> {}]
NoCall == [item_id |-> "", dest_folder |-> << >>, ans |-> Answer("", << >>, << >>),
           raised |-> FALSE, ret |-> NoPath, net |-> {}, read |-> "none",
           wrote |-> FALSE]

MainOff ==
    /\ library = "none" /\ pc = "off" /\ login_resp = NoResp /\ session = NoSession /\ net = {}
    /\ n_items = 0 /\ idx = 0 /\ item = NoItem /\ item_meta = NoMeta
    /\ folder = << >> /\ audio_path = NoPath /\ lrc = << >> /\ todo = << >>
    /\ steps = << >> /\ handled = << >>
DlOff == n_calls = 0 /\ prev_call = NoCall /\ last_call = NoCall
CdOff == cd_params = << >> /\ cd_header = << >> /\ fallback_name = << >>
         /\ cd_result = << >>

----------------------------------------------------------------------------
(* login *)

\* requests' raise_for_status raises for 4xx and 5xx
RaisesForStatus(status) == 400 <= status /\ status < 600

\* lines 21-31: whether login raises on the response r
LoginRaises(r) ==
    \/ RaisesForStatus(r.status)
    \/ ~r.json
    \/ r.AccessToken = "" \/ r.UserId = ""

Response(status, json, token, user_id) ==
    [status |-> status, json |-> json, AccessToken |-> token, UserId |-> user_id]

\* 200, a redirect-class status (a 3xx the client does not follow), 401;
\* a body that is no JSON, or JSON with or without AccessToken and User.Id
LoginResponses ==
    {Response(st, TRUE, t, u) : st \in {200, 300, 401}, t \in {"", "T"},
                                u \in {"", "U"}}
    \cup {Response(st, FALSE, "", "") : st \in {200, 300, 401}}

----------------------------------------------------------------------------
(* The listing and the metadata *)

MaxItems == 2
MaxSiblings == 1

\* A library of ordinary entries: one entry, and that entry with one thing
\* changed at a time (another id, a parent, a missing or null duration).
BaseItem ==
    [Id |-> "1", Artists |-> << <<"a">> >>, Album |-> <<"b", "/">>,
     ParentId |-> "", RunTimeTicks |-> "int"]
PlainLibrary ==
    {BaseItem, [BaseItem EXCEPT !.Id = "2"], [BaseItem EXCEPT !.ParentId = "9"]}
    \cup {[BaseItem EXCEPT !.RunTimeTicks = t] : t \in {"missing", "null"}}

\* A library of oddly named entries: the ordinary entry with its artists or
\* its album changed (absent, several, made of dropped characters only,
\* blank-padded, dot-dot).
OddArtists == { << >>, << <<"a">>, <<"z">> >>, << <<"/">> >>, << <<" ", "a", ":">> >>,
                << DotDot >> }
OddAlbums == { << >>, <<"?">>, DotDot }
OddLibrary ==
    {[BaseItem EXCEPT !.Artists = a] : a \in OddArtists}
    \cup {[BaseItem EXCEPT !.Album = b] : b \in OddAlbums}
    \cup {[BaseItem EXCEPT !.Artists = << <<"/">> >>, !.ParentId = "9"]}

\* the entries a listing of the library can hold
Entries(lib) == IF lib = "odd" THEN OddLibrary ELSE PlainLibrary

ExtraFile(id, name) == [Id |-> id, Name |-> name]

\* The metadata of item id: media-source paths, extra-file records (Id ""
\* is a record without the key) and the image slots that carry a tag.
\* Nothing to fetch, one discovery strategy at a time, or all three.
Meta(id, sources, extras, tags) ==
    [Id |-> id, MediaSources |-> sources, ExtraFiles |-> extras, tags |-> tags]
SomeSources == << <<"x", ".mp3">>, <<"x", ".LRC">> >>
SomeExtras == <<ExtraFile("", <<"n">>), ExtraFile("3", << >>), ExtraFile("3", <<"n">>)>>
MetaShapes(id) ==
    { Meta(id, << >>, << >>, {}),
      Meta(id, SomeSources, << >>, {}),
      Meta(id, << >>, SomeExtras, {}),
      Meta(id, << >>, << >>, {"PrimaryImage", "Screenshot"}),
      Meta(id, SomeSources, SomeExtras, {"BackdropImage"}) }

SiblingShapes == [Id : {"1", "3"}, Name : { << >>, <<"x", ".LRC">>, <<"x", ".mp3">> }]

\* str.lower on one token
LowerToken(c) ==
    CASE c = ".LRC" -> ".lrc"
      [] OTHER -> c
Lower(s) == [i \in 1..Len(s) |-> LowerToken(s[i])]

EndsWith(s, ext) == s # << >> /\ s[Len(s)] = ext

ExtraExts == {".lrc", ".txt", ".nfo", ".cue"}
SiblingExts == ExtraExts \cup {".jpg", ".jpeg", ".png"}

\* tokens that begin with a dot
Dotted == SiblingExts \cup {".", ".mp3", ".LRC"}

\* os.path.splitext(name)[0]: cut at the last dot, unless only dots precede it
LastDotted(s) ==
    IF \E k \in 1..Len(s) : s[k] \in Dotted
    THEN CHOOSE k \in 1..Len(s) :
            s[k] \in Dotted /\ \A j \in (k + 1)..Len(s) : s[j] \notin Dotted
    ELSE 0
SplitExtRoot(s) ==
    LET k == LastDotted(s)
    IN  IF k > 0 /\ \E j \in 1..(k - 1) : s[j] # "."
        THEN SubSeq(s, 1, k - 1)
        ELSE s

\* lines 91-95
safe_name(s) ==
    IF s = << >> THEN <<"Unknown">>
    ELSE Strip(Drop(s, invalid_chars), Whitespace)

\* lines 200-204
Artist(it) == IF it.Artists = << >> THEN <<"Unknown Artist">> ELSE it.Artists[1]
Album(it) == IF it.Album = << >> THEN <<"Unknown Album">> ELSE it.Album
Folder(it) == <<safe_name(Artist(it)), safe_name(Album(it))>>

----------------------------------------------------------------------------
(* download_item_extras and the sibling sweep: what each loop visits *)

Sidecar(kind, arg) == [kind |-> kind, arg |-> arg]

\* lines 134-140: one download of the item itself per media source whose
\* path ends in one of the four extensions
MediaSourcePlan(meta) ==
    LET hit == SelectSeq(meta.MediaSources,
                   LAMBDA path : \E ext \in ExtraExts : EndsWith(Lower(path), ext))
    IN  [i \in 1..Len(hit) |-> Sidecar("download", meta.Id)]

\* lines 145-150: one download per extra-file record with a name
ExtraFilesPlan(meta) ==
    LET named == SelectSeq(meta.ExtraFiles, LAMBDA ef : ef.Name # << >>)
    IN  [i \in 1..Len(named) |-> Sidecar("download", named[i].Id)]

\* lines 155-158: one image per slot that carries a tag, in the fixed order
ImageSlots == <<"PrimaryImage", "BackdropImage", "Screenshot">>
ImagePlan(meta) ==
    LET tagged == SelectSeq(ImageSlots, LAMBDA slot : slot \in meta.tags)
    IN  [i \in 1..Len(tagged) |-> Sidecar("image", tagged[i])]

ExtrasPlan(meta) == MediaSourcePlan(meta) \o ExtraFilesPlan(meta) \o ImagePlan(meta)

\* lines 220-224: the siblings downloaded
SiblingPlan(it, siblings) ==
    LET hit == SelectSeq(siblings,
                   LAMBDA sib : /\ sib.Id # it.Id
                                /\ \E ext \in SiblingExts :
                                      EndsWith(Lower(sib.Name), ext))
    IN  [i \in 1..Len(hit) |-> Sidecar("download", hit[i].Id)]

\* a sidecar loop without its try/except
SidecarUncaught(raised) == raised

\* lines 138-142, 148-152, 164-173, 225-229: a try/except Exception around
\* one sidecar; nothing it raises leaves the loop
SidecarRaises(raised) == FALSE

\* main's loop without its try/except
IterationUncaught(raised) == raised

\* lines 199, 230-231: the try/except Exception around one iteration of
\* main's loop; nothing it raises leaves the loop
IterationRaises(raised) == FALSE

----------------------------------------------------------------------------
(* fetch_lrclib_lrc and save_lrc *)

LyricsReply(kind, synced, plain) == [kind |-> kind, synced |-> synced, plain |-> plain]

\* a transport error, a status other than 200, a body that is no JSON
\* object, or JSON with or without syncedLyrics and plainLyrics
LyricsReplies ==
    {LyricsReply(k, << >>, << >>) : k \in {"transport_error", "status_404", "bad_json"}}
    \cup {LyricsReply("json", sy, pl) : sy \in { << >>, <<"synced">> },
                                        pl \in { << >>, <<"plain">> }}

\* lines 109-117
fetch_lrclib_lrc(reply) ==
    IF reply.kind # "json" THEN << >>
    ELSE IF reply.synced # << >> THEN reply.synced
    ELSE reply.plain

\* main without the test `if lrc:`
AlwaysSaves(text) == "save_lrc"

\* lines 212-215: save_lrc runs only for lyrics that are there
AfterLyrics(text) == IF text # << >> THEN "save_lrc" ELSE "sweep"

\* line 210: item.get("RunTimeTicks", 0) / 10_000_000 raises TypeError on null
DurationRaises(it) == it.RunTimeTicks = "null"

\* lines 120-121
LrcPath(dir, track_name) == Path(dir, SafeFname(track_name) \o <<".lrc">>)

----------------------------------------------------------------------------
(* main *)

Started(step) ==
    IF steps # << >> /\ steps[Len(steps)] = step THEN steps ELSE Append(steps, step)

\* the iteration ends, normally ("ok") or in the except branch ("failed"),
\* and the loop goes on to the next entry or ends; what the iteration held
\* is dead from here on
EndIteration(outcome) ==
    /\ handled' = Append(handled, outcome)
    /\ idx' = idx + 1
    /\ pc' = IF idx < n_items THEN "resolve" ELSE "done"
    /\ item' = NoItem /\ item_meta' = NoMeta /\ folder' = << >>
    /\ audio_path' = NoPath /\ lrc' = << >> /\ todo' = << >> /\ steps' = << >>

\* an exception raised inside the iteration
Raise ==
    IF IterationRaises(TRUE)
    THEN /\ pc' = "aborted"
         /\ UNCHANGED <<handled, idx, item, item_meta, folder, audio_path, lrc,
                        todo, steps>>
    ELSE EndIteration("failed")

\* the program starts, on an empty target folder
Start ==
    /\ pc = "login" /\ login_resp = NoResp /\ session = NoSession /\ net = {}
    /\ n_items = 0 /\ idx = 0 /\ item = NoItem /\ item_meta = NoMeta
    /\ folder = << >> /\ audio_path = NoPath /\ lrc = << >> /\ todo = << >>
    /\ steps = << >> /\ handled = << >>
    /\ fs = EmptyFS
    /\ DlOff /\ CdOff

Init == Start /\ library = "plain"

\* lines 184-186
Login ==
    /\ pc = "login"
    /\ net' = net \cup {"auth"}
    /\ \E r \in LoginResponses :
          /\ login_resp' = r
          /\ IF LoginRaises(r)
             THEN pc' = "aborted" /\ session' = session
             ELSE pc' = "enumerate"
                  /\ session' = [token |-> r.AccessToken, user_id |-> r.UserId]
    /\ UNCHANGED <<library, n_items, idx, item, item_meta, folder, audio_path, lrc,
                   todo, steps, handled, fs, dlVars, cdVars>>

\* lines 188-196: the listing raises, or returns n entries
Enumerate ==
    /\ pc = "enumerate"
    /\ net' = net \cup {"items"}
    /\ \/ pc' = "aborted" /\ UNCHANGED <<n_items, idx>>
       \/ \E n \in 0..MaxItems :
             /\ n_items' = n
             /\ idx' = 1
             /\ pc' = IF n = 0 THEN "done" ELSE "resolve"
    /\ UNCHANGED <<library, login_resp, session, item, item_meta, folder, audio_path, lrc,
                   todo, steps, handled, fs, dlVars, cdVars>>

\* lines 198-204: the loop takes the next entry and fetches its metadata.
\* The listing is immutable and entry idx is first read here, so the entry
\* is drawn here.
ResolveMetadata ==
    /\ pc = "resolve"
    /\ net' = net \cup {"item"}
    /\ \/ Raise
       \/ \E it \in Entries(library) : \E meta \in MetaShapes(it.Id) :
             /\ item' = it
             /\ item_meta' = meta
             /\ folder' = Folder(it)
             /\ steps' = <<"resolve">>
             /\ pc' = "audio"
             /\ UNCHANGED <<idx, audio_path, lrc, todo, handled>>
    /\ UNCHANGED <<library, login_resp, session, n_items, fs, dlVars, cdVars>>

\* lines 205-209: the audio download; on its return download_item_extras
\* is entered
DownloadAudio ==
    /\ pc = "audio"
    /\ \E ans \in RunAnswers(item.Id) :
          \E r \in {download_item_file(fs, item.Id, folder, ans)} :
              /\ fs' = r.fs
              /\ net' = net \cup r.net
              /\ IF r.raised
                 THEN Raise
                 ELSE /\ audio_path' = r.ret
                      /\ todo' = ExtrasPlan(item_meta)
                      /\ steps' = Append(steps, "audio")
                      /\ pc' = "extras"
                      /\ UNCHANGED <<idx, item, item_meta, folder, lrc, handled>>
    /\ UNCHANGED <<library, login_resp, session, n_items, dlVars, cdVars>>

\* one sidecar of download_item_extras or of the sibling sweep
SidecarStep(step) ==
    LET sc == Head(todo)
        Caught(raised) ==
            IF SidecarRaises(raised)
            THEN Raise
            ELSE /\ todo' = Tail(todo)
                 /\ steps' = Started(step)
                 /\ UNCHANGED <<pc, idx, item, item_meta, folder, audio_path, lrc,
                                handled>>
    IN  \/ /\ sc.kind = "download" /\ sc.arg = ""      \* ef["Id"]: KeyError
           /\ Caught(TRUE)
           /\ UNCHANGED <<fs, net>>
        \/ /\ sc.kind = "download" /\ sc.arg # ""
           /\ \E ans \in RunAnswers(sc.arg) :
                 \E r \in {download_item_file(fs, sc.arg, folder, ans)} :
                     fs' = r.fs /\ net' = net \cup r.net /\ Caught(r.raised)
        \/ /\ sc.kind = "image"
           /\ \E loc \in {Loc(Path(folder, <<sc.arg, ".jpg">>))} :
                  IF Exists(fs, loc)
                  THEN Caught(FALSE) /\ UNCHANGED <<fs, net>>
                  ELSE /\ net' = net \cup {"image"}
                       /\ \/ fs' = fs /\ Caught(TRUE)         \* the request fails
                          \/ fs' = WriteFile(fs, loc, Image(sc.arg))
                             /\ Caught(TRUE)               \* the stream breaks
                          \/ fs' = WriteFile(fs, loc, Image(sc.arg))
                             /\ Caught(FALSE)

\* lines 129-173, one sidecar per step
ExtrasStep ==
    /\ pc = "extras" /\ todo # << >>
    /\ SidecarStep("extras")
    /\ UNCHANGED <<library, login_resp, session, n_items, dlVars, cdVars>>

\* download_item_extras returns; item_meta is not read again
ExtrasReturn ==
    /\ pc = "extras" /\ todo = << >>
    /\ steps' = Started("extras")
    /\ pc' = "lyrics"
    /\ item_meta' = NoMeta
    /\ UNCHANGED <<library, login_resp, session, net, n_items, idx, item, folder,
                   audio_path, lrc, todo, handled, fs, dlVars, cdVars>>

\* lines 210-215; audio_path and lrc are only read by save_lrc
FetchLyrics ==
    /\ pc = "lyrics"
    /\ IF DurationRaises(item)
       THEN Raise /\ net' = net
       ELSE /\ net' = net \cup {"lyrics"}
            /\ \E reply \in LyricsReplies :
                  /\ lrc' = fetch_lrclib_lrc(reply)
                  /\ pc' = AfterLyrics(lrc')
                  /\ audio_path' = IF pc' = "save_lrc" THEN audio_path ELSE NoPath
            /\ steps' = Append(steps, "lyrics")
            /\ UNCHANGED <<idx, item, item_meta, folder, todo, handled>>
    /\ UNCHANGED <<library, login_resp, session, n_items, fs, dlVars, cdVars>>

\* line 213 and save_lrc; audio_fname is line 207
SaveLrc ==
    /\ pc = "save_lrc"
    /\ \E audio_fname \in {SplitExtRoot(audio_path.name)} :
       \E out_path \in {LrcPath(folder, audio_fname)} :
       \E loc \in {Loc(out_path)} :
           IF IsDir(fs, loc)
           THEN Raise /\ fs' = fs
           ELSE /\ fs' = WriteFile(fs, loc, Lyrics(lrc))
                /\ steps' = Append(steps, "save_lrc")
                /\ pc' = "sweep"
                /\ audio_path' = NoPath /\ lrc' = << >>
                /\ UNCHANGED <<idx, item, item_meta, folder, todo, handled>>
    /\ UNCHANGED <<library, login_resp, session, net, n_items, dlVars, cdVars>>

\* lines 218-224: without a parent the iteration ends; with one, the
\* siblings are listed
SweepSiblings ==
    /\ pc = "sweep"
    /\ IF item.ParentId = ""
       THEN EndIteration("ok") /\ net' = net
       ELSE /\ net' = net \cup {"items"}
            /\ \/ Raise
               \/ \E siblings \in SeqsUpTo(SiblingShapes, MaxSiblings) :
                     /\ todo' = SiblingPlan(item, siblings)
                     /\ steps' = Append(steps, "sweep")
                     /\ pc' = "siblings"
                     /\ UNCHANGED <<idx, item, item_meta, folder, audio_path, lrc,
                                    handled>>
    /\ UNCHANGED <<library, login_resp, session, n_items, fs, dlVars, cdVars>>

\* lines 225-229, one sibling per step
SiblingStep ==
    /\ pc = "siblings" /\ todo # << >>
    /\ SidecarStep("sweep")
    /\ UNCHANGED <<library, login_resp, session, n_items, dlVars, cdVars>>

\* the sibling loop is over: the iteration ends
SiblingsEnd ==
    /\ pc = "siblings" /\ todo = << >>
    /\ EndIteration("ok")
    /\ UNCHANGED <<library, login_resp, session, net, n_items, fs, dlVars, cdVars>>

Next ==
    \/ Login \/ Enumerate \/ ResolveMetadata \/ DownloadAudio
    \/ ExtrasStep \/ ExtrasReturn \/ FetchLyrics \/ SaveLrc
    \/ SweepSiblings \/ SiblingStep \/ SiblingsEnd

Spec == Init /\ [][Next]_vars

\* main is one thread that runs until it ends
FairSpec == Spec /\ WF_vars(Next)

\* the same program on a library of oddly named artists and albums
InitLayout == Start /\ library = "odd"
SpecLayout == InitLayout /\ [][Next]_vars

----------------------------------------------------------------------------
(* extract_filename_from_cd on its own: every header of up to MaxParams    *)
(* parameters, every fallback                                              *)

MaxParams == 2

CdValues == { <<"a">>, <<"b", "%20", "c">>, <<"%2F", "d">> }
CdParams ==
    {CdParam("type", << >>)}
    \cup {CdParam(k, v) : k \in {"ext", "ext_lc", "quoted", "bare"}, v \in CdValues}
Fallbacks == { <<"Song">>, <<"1">> }

CdInit ==
    /\ cd_params \in SeqsUpTo(CdParams, MaxParams)
    /\ cd_header = RenderHeader(cd_params)
    /\ fallback_name \in Fallbacks
    /\ cd_result = <<"(not called)">>
    /\ MainOff /\ DlOff /\ fs = EmptyFS

CdCall ==
    /\ cd_result = <<"(not called)">>
    /\ cd_result' = extract_filename_from_cd(cd_header, fallback_name)
    /\ UNCHANGED <<cd_params, cd_header, fallback_name, mainVars, fs, dlVars>>

SpecCD == CdInit /\ [][CdCall]_vars

----------------------------------------------------------------------------
(* download_item_file on its own: up to MaxCalls calls in a row, any item, *)
(* folder and server answer                                                 *)

MaxCalls == 3

DlIds == {"1", "2"}
DlFolders == { <<<<"a">>, <<"b">>>>, <<<<"a">>>> }

Call(item_id, dest_folder, ans, r) ==
    [item_id |-> item_id, dest_folder |-> dest_folder, ans |-> ans,
     raised |-> r.raised, ret |-> r.ret, net |-> r.net, read |-> r.read,
     wrote |-> r.wrote]

DlInit == n_calls = 0 /\ prev_call = NoCall /\ last_call = NoCall
          /\ fs = EmptyFS /\ MainOff /\ CdOff

DlCall ==
    /\ n_calls < MaxCalls
    /\ \E item_id \in DlIds, dest_folder \in DlFolders, ans \in Answers :
          \E r \in {download_item_file(fs, item_id, dest_folder, ans)} :
              /\ fs' = r.fs
              /\ prev_call' = last_call
              /\ last_call' = Call(item_id, dest_folder, ans, r)
    /\ n_calls' = n_calls + 1
    /\ UNCHANGED <<mainVars, cdVars>>

SpecDL == DlInit /\ [][DlCall]_vars

----------------------------------------------------------------------------
(* Properties *)

IterationPcs == {"resolve", "audio", "extras", "lyrics", "save_lrc", "sweep", "siblings"}

Range(f) == {f[i] : i \in DOMAIN f}

\* C1: no write into the destination tree overwrites or truncates a file
\* that existed before the write: every file on the disk before a step is
\* there, with the same content, after it.
C1_NoOverwrite ==
    [][\A loc \in DOMAIN fs.files :
          loc \in DOMAIN fs'.files /\ fs'.files[loc] = fs.files[loc]]_vars

\* two calls in a row with the same item, folder and server answer
SameCallTwice ==
    /\ n_calls >= 2
    /\ last_call.item_id = prev_call.item_id
    /\ last_call.dest_folder = prev_call.dest_folder
    /\ last_call.ans = prev_call.ans

\* C2 (as claimed): of two identical calls in a row, the second returns the
\* path the first returned, reads no body chunk, writes nothing, and sends
\* no request for the payload.
C2_SecondCallSendsNothing ==
    SameCallTwice /\ ~prev_call.raised =>
        /\ ~last_call.raised /\ last_call.ret = prev_call.ret
        /\ last_call.read = "none" /\ ~last_call.wrote
        /\ "download" \notin last_call.net

\* C2 (amended): of two identical calls in a row, the second reads no body
\* chunk and writes nothing, and returns the path the first returned when
\* the first returned one; it does send the download request again (and the
\* metadata request, unless the download request failed).
C2_SecondCallSkips ==
    SameCallTwice =>
        /\ last_call.read = "none" /\ ~last_call.wrote
        /\ ~prev_call.raised => ~last_call.raised /\ last_call.ret = prev_call.ret
        /\ "download" \in last_call.net
        /\ last_call.ans.outcome # "http_error" => "item" \in last_call.net

\* the first of two identical calls transferred the whole body and wrote the
\* file, the second returned the same path
C2_Witness ==
    /\ SameCallTwice
    /\ prev_call.read = "all" /\ prev_call.wrote /\ ~prev_call.raised
    /\ ~last_call.raised /\ last_call.ret = prev_call.ret

\* C3: once login and enumeration have succeeded, nothing an iteration
\* raises ends the run; an audio download that returned has its file on the
\* disk whatever happened to earlier entries; and every iteration leads to
\* the end of the run with every entry handled.
C3_FailureIsolation ==
    /\ [][(pc \in IterationPcs) => pc' # "aborted"]_vars
    /\ [](pc = "extras" /\ "extras" \notin Range(steps)
            => IsFile(fs, Loc(audio_path)))
    /\ (pc \in IterationPcs ~> (pc = "done" /\ Len(handled) = n_items))

\* the first entry failed, the second was handled and left a file
C3_Witness ==
    /\ pc = "done" /\ handled = <<"failed", "ok">>
    /\ \E loc \in DOMAIN fs.files : fs.files[loc] = Body("2", TRUE)

\* C4: a login response with a status outside 2xx, or without AccessToken or
\* User.Id, aborts the run: nothing but the authentication request was
\* sent and nothing is on the disk.
C4_LoginFailureFatal ==
    login_resp # NoResp
    /\ (\/ login_resp.status < 200 \/ login_resp.status >= 300
        \/ ~login_resp.json
        \/ login_resp.AccessToken = "" \/ login_resp.UserId = "")
    => pc = "aborted" /\ net = {"auth"} /\ fs = EmptyFS

\* C5: every file written lies exactly three levels below the target root,
\* each level a non-empty component that is neither "." nor ".." and holds
\* none of the dropped characters.
C5_Layout ==
    \A loc \in DOMAIN fs.files :
        /\ Len(loc) = 3
        /\ \A i \in 1..Len(loc) :
              /\ loc[i] \notin { << >>, Dot, DotDot }
              /\ \A j \in 1..Len(loc[i]) : loc[i][j] \notin invalid_chars

\* the pipeline in order; save_lrc may be left out
Pipeline == <<"resolve", "audio", "extras", "lyrics", "save_lrc", "sweep">>
PipelineNoSave == <<"resolve", "audio", "extras", "lyrics", "sweep">>
IsPrefix(s, t) == Len(s) <= Len(t) /\ s = SubSeq(t, 1, Len(s))

\* C6: login comes before the listing and the listing before any request of
\* an iteration; the steps of an iteration run in pipeline order, save_lrc
\* only with lyrics; iteration k+1 starts only when iteration k has ended;
\* the run is done only when every entry has been handled.
C6_Ordering ==
    /\ net \ {"auth"} # {} => session # NoSession
    /\ net \cap {"item", "download", "image", "lyrics"} # {} => "items" \in net
    /\ IsPrefix(steps, Pipeline) \/ IsPrefix(steps, PipelineNoSave)
    /\ pc = "save_lrc" \/ "save_lrc" \in Range(steps) => "lyrics" \in Range(steps)
    /\ pc = "save_lrc" => lrc # << >>
    /\ pc \in IterationPcs => idx <= n_items /\ Len(handled) = idx - 1
    /\ pc \in IterationPcs \ {"resolve"} => steps # << >>
    /\ pc = "done" => Len(handled) = n_items

\* the second entry has gone through all six steps
C6_Witness ==
    pc = "siblings" /\ idx = 2 /\ steps = Pipeline

\* C7: inside download_item_extras every step takes exactly one sidecar off
\* the plan and stays inside, whatever that sidecar raised; the plan is the
\* whole of the three strategies' finds; the function returns to main, and
\* only once the plan is empty.
C7_ExtrasBestEffort ==
    /\ [][pc = "audio" /\ pc' = "extras" => todo' = ExtrasPlan(item_meta)]_vars
    /\ [][pc = "extras" =>
             /\ handled' = handled
             /\ IF todo # << >>
                THEN pc' = "extras" /\ todo' = Tail(todo)
                ELSE pc' = "lyrics"]_vars

\* an extra file's download broke part way, the image after it was fetched,
\* and download_item_extras returned
C7_Witness ==
    /\ pc = "lyrics"
    /\ \E loc \in DOMAIN fs.files : fs.files[loc] = Body("3", FALSE)
    /\ \E loc \in DOMAIN fs.files : fs.files[loc] = Image("BackdropImage")

\* C8: the lyrics step never ends the iteration: it goes on to save_lrc or
\* to the sibling sweep, and without lyrics it writes nothing.
C8_LyricsNeverBlock ==
    [][pc = "lyrics" =>
          /\ pc' \in {"save_lrc", "sweep"}
          /\ handled' = handled
          /\ lrc' = << >> => fs' = fs]_vars

\* the value of the first parameter of one of the kinds, << >> when none
RECURSIVE FirstValue(_, _)
FirstValue(params, kinds) ==
    IF params = << >> THEN << >>
    ELSE IF params[1].kind \in kinds THEN params[1].value
    ELSE FirstValue(Tail(params), kinds)
HasKind(params, kinds) == \E i \in 1..Len(params) : params[i].kind \in kinds

\* C9: the result is the percent-decoded value of the extended UTF-8
\* parameter when the header has one, else the value of the classic
\* parameter when it has one, else the fallback.
C9_Precedence ==
    cd_result # <<"(not called)">> =>
        cd_result =
            IF HasKind(cd_params, {"ext", "ext_lc"})
            THEN Unquote(FirstValue(cd_params, {"ext", "ext_lc"}))
            ELSE IF HasKind(cd_params, {"quoted", "bare"})
            THEN FirstValue(cd_params, {"quoted", "bare"})
            ELSE fallback_name

\* C10: a call that returns a path leaves at that path the complete body
\* of the item it was called for.
C10_Complete ==
    n_calls > 0 /\ ~last_call.raised =>
        /\ IsFile(fs, Loc(last_call.ret))
        /\ fs.files[Loc(last_call.ret)] = Body(last_call.item_id, TRUE)

====
